---- MODULE Spec2Model ----
(***************************************************************************)
(* Model of api_faturamento_nfse.py: the /consultar request handler, the   *)
(* two authenticators, the temporary certificate files, the page scraper   *)
(* (processar_pagina), the paginator (consultar_notas) and the aggregator  *)
(* (totalizar_por_mes).                                                    *)
(*                                                                         *)
(* Texts (cell contents, attribute values, labels) are sequences of        *)
(* one-character strings, so that the regular expression search, the       *)
(* monetary parsing and the label formatting are computed, not assumed.    *)
(* Optional values are <<>> (None) or <<x>> (a value x).  Floats are exact *)
(* decimals [m, e] standing for m / 10^e, kept normalised; binary rounding *)
(* of Python floats is not modelled.                                       *)
(***************************************************************************)
EXTENDS Integers, Sequences, FiniteSets, TLC

VARIABLES pc, req, carregado, autenticando, session, fs, trafego, contribuinte,
          pagina, todas_notas, notas_retornadas, resposta,
          pagIn, pagOut, totIn, totOut

vars == <<pc, req, carregado, autenticando, session, fs, trafego, contribuinte,
          pagina, todas_notas, notas_retornadas, resposta,
          pagIn, pagOut, totIn, totOut>>

handlerVars == <<pc, req, carregado, autenticando, session, fs, trafego, contribuinte,
                 pagina, todas_notas, notas_retornadas, resposta>>

----------------------------------------------------------------------------
(* Bounds of the model *)

\* rows in one page of the handler's specification
MaxLinhas == 1
\* pages the portal serves in one request
MaxPaginas == 2
\* rows in one page given to the page scraper alone
MaxLinhasPagina == 2
\* records in one list given to the aggregator alone
MaxNotas == 2

----------------------------------------------------------------------------
(* Optional values and texts *)

None == <<>>
Some(x) == <<x>>

Digitos == <<"0", "1", "2", "3", "4", "5", "6", "7", "8", "9">>

IsDigit(c) == \E d \in 1..10 : Digitos[d] = c

DigitVal(c) == (CHOOSE d \in 1..10 : Digitos[d] = c) - 1

\* int(s) for a text of decimal digits
RECURSIVE IntOf(_)
IntOf(s) ==
    IF s = <<>> THEN 0
    ELSE IntOf(SubSeq(s, 1, Len(s) - 1)) * 10 + DigitVal(s[Len(s)])

\* str(n) for n >= 0
RECURSIVE StrOf(_)
StrOf(n) ==
    IF n < 10 THEN <<Digitos[n + 1]>>
    ELSE StrOf(n \div 10) \o <<Digitos[(n % 10) + 1]>>

\* sub in s, for texts
Contains(s, sub) ==
    \E i \in 1..(Len(s) - Len(sub) + 1) : SubSeq(s, i, i + Len(sub) - 1) = sub

GERADA == <<"G", "E", "R", "A", "D", "A">>
CANCELADA == <<"C", "A", "N", "C", "E", "L", "A", "D", "A">>

----------------------------------------------------------------------------
(* Exact decimals standing for the float values *)

RECURSIVE Norm(_, _)
Norm(m, e) ==
    IF e > 0 /\ m % 10 = 0 THEN Norm(m \div 10, e - 1) ELSE [m |-> m, e |-> e]

RECURSIVE Pow10(_)
Pow10(e) == IF e = 0 THEN 1 ELSE 10 * Pow10(e - 1)

Zero == [m |-> 0, e |-> 0]

DecAdd(a, b) ==
    LET e == IF a.e > b.e THEN a.e ELSE b.e
    IN  Norm(a.m * Pow10(e - a.e) + b.m * Pow10(e - b.e), e)

----------------------------------------------------------------------------
(* SCRAPING: processar_pagina *)

\* re.search(r'(\d{2})/(\d{4})', texto): None, or the two groups as integers
re_search_competencia(texto) ==
    LET hits == {i \in 1..(Len(texto) - 6) :
                    /\ IsDigit(texto[i]) /\ IsDigit(texto[i + 1])
                    /\ texto[i + 2] = "/"
                    /\ \A k \in 3..6 : IsDigit(texto[i + k])}
    IN  IF hits = {} THEN None
        ELSE LET i == CHOOSE j \in hits : \A k \in hits : j <= k
             IN  Some([mes |-> IntOf(SubSeq(texto, i, i + 1)),
                       ano |-> IntOf(SubSeq(texto, i + 3, i + 6))])

NaoPonto(c) == c # "."

\* the first replace left out: the thousands separator stays
trocar_separadores_semMilhar(valor_txt) ==
    [i \in 1..Len(valor_txt) |->
        IF valor_txt[i] = "," THEN "." ELSE valor_txt[i]]

\* valor_txt.replace('.', '').replace(',', '.')
trocar_separadores(valor_txt) ==
    LET semPonto == SelectSeq(valor_txt, NaoPonto)
    IN  [i \in 1..Len(semPonto) |->
            IF semPonto[i] = "," THEN "." ELSE semPonto[i]]

\* float(s) for texts of digits, '.' and other characters that are no part
\* of a number: None stands for ValueError
float_de(s) ==
    LET pontos == {i \in 1..Len(s) : s[i] = "."}
        digitos == SelectSeq(s, IsDigit)
    IN  IF \/ \E i \in 1..Len(s) : ~IsDigit(s[i]) /\ s[i] # "."
           \/ Cardinality(pontos) > 1
           \/ digitos = <<>>
        THEN None
        ELSE LET e == IF pontos = {} THEN 0
                      ELSE Len(s) - (CHOOSE i \in pontos : TRUE)
             IN  Some(Norm(IntOf(digitos), e))

parse_valor(valor_txt) == float_de(trocar_separadores(valor_txt))

\* only a later year stops the scan
ano_diferente_soPosterior(ano_nota, ano) == ano_nota > ano

ano_diferente(ano_nota, ano) == ano_nota # ano

\* the comparison turned round
mes_antigo_invertido(mes_nota, mes_filtro) == mes_nota > mes_filtro

mes_antigo(mes_nota, mes_filtro) == mes_nota < mes_filtro

mes_outro(mes_nota, mes_filtro) == mes_nota # mes_filtro

\* a shorter marker, which the cancelled status holds too
nao_autorizada_sufixo(status_cod) == ~Contains(status_cod, <<"A", "D", "A">>)

nao_autorizada(status_cod) == ~Contains(status_cod, GERADA)

\* the body of the loop over the rows: what one row does to the scan
processar_linha(linha, ano, mes_filtro) ==
    LET continue == [acao |-> "continue", nota |-> <<>>]
        break == [acao |-> "break", nota |-> <<>>]
    IN  IF linha.competencia = None THEN continue
        ELSE LET match == re_search_competencia(linha.competencia[1])
        IN  IF match = None THEN continue
            ELSE LET mes_nota == match[1].mes
                     ano_nota == match[1].ano
            IN  IF ano_diferente(ano_nota, ano) THEN break
                ELSE IF mes_filtro # None /\ mes_antigo(mes_nota, mes_filtro[1])
                THEN break
                ELSE IF mes_filtro # None /\ mes_outro(mes_nota, mes_filtro[1])
                THEN continue
                ELSE IF nao_autorizada(linha.situacao) THEN continue
                ELSE IF linha.valor = None THEN continue
                ELSE LET valor == parse_valor(linha.valor[1])
                IN  IF valor = None THEN continue
                    ELSE [acao |-> "append",
                          nota |-> <<[mes |-> mes_nota, ano |-> ano_nota,
                                      valor |-> valor[1],
                                      status |-> "Autorizada"]>>]

RECURSIVE percorrer_linhas(_, _, _, _)
percorrer_linhas(linhas, ano, mes_filtro, notas) ==
    IF linhas = <<>> THEN [notas |-> notas, continuar |-> TRUE]
    ELSE LET r == processar_linha(Head(linhas), ano, mes_filtro)
         IN  IF r.acao = "break" THEN [notas |-> notas, continuar |-> FALSE]
             ELSE percorrer_linhas(Tail(linhas), ano, mes_filtro,
                                   notas \o r.nota)

processar_pagina(html, ano, mes_filtro) ==
    IF ~html.tbody THEN [notas |-> <<>>, continuar |-> FALSE]
    ELSE percorrer_linhas(html.linhas, ano, mes_filtro, <<>>)

----------------------------------------------------------------------------
(* AGGREGATION: totalizar_por_mes *)

\* f"{n:02d}" for n >= 0
fmt02d(n) == IF n < 10 THEN <<"0">> \o StrOf(n) ELSE StrOf(n)

\* f"{mes:02d}/{ano}"
chave_mes(mes, ano) == fmt02d(mes) \o <<"/">> \o StrOf(ano)

\* the seeding: the filtered month alone, or the twelve months of the year
meses_iniciais(ano, mes_filtro) ==
    LET chaves == IF mes_filtro # None THEN {chave_mes(mes_filtro[1], ano)}
                  ELSE {chave_mes(m, ano) : m \in 1..12}
    IN  [k \in chaves |-> Zero]

\* a record of a month that was not seeded opens an entry of its own
somar_nota_semeando(meses, nota) ==
    LET chave == chave_mes(nota.mes, nota.ano)
    IN  [k \in DOMAIN meses \cup {chave} |->
            IF k = chave
            THEN DecAdd(IF k \in DOMAIN meses THEN meses[k] ELSE Zero, nota.valor)
            ELSE meses[k]]

\* the body of the summing loop, for one record
somar_nota(meses, nota) ==
    LET chave == chave_mes(nota.mes, nota.ano)
    IN  IF chave \in DOMAIN meses
        THEN [meses EXCEPT ![chave] = DecAdd(@, nota.valor)]
        ELSE meses

RECURSIVE somar_notas(_, _)
somar_notas(meses, notas) ==
    IF notas = <<>> THEN meses
    ELSE somar_notas(somar_nota(meses, Head(notas)), Tail(notas))

totalizar_por_mes(notas, ano, mes_filtro) ==
    somar_notas(meses_iniciais(ano, mes_filtro), notas)

\* sum(n['valor'] for n in notas)
RECURSIVE soma_valores(_)
soma_valores(notas) ==
    IF notas = <<>> THEN Zero
    ELSE DecAdd(notas[1].valor, soma_valores(Tail(notas)))

----------------------------------------------------------------------------
(* Inputs of the page scraper and of the aggregator taken alone *)

T_03_2025 == <<"0", "3", "/", "2", "0", "2", "5">>
T_05_2025 == <<"0", "5", "/", "2", "0", "2", "5">>
T_02_2025 == <<"0", "2", "/", "2", "0", "2", "5">>
T_13_2025 == <<"1", "3", "/", "2", "0", "2", "5">>
T_12_2024 == <<"1", "2", "/", "2", "0", "2", "4">>

V_1234_56 == <<"1", ".", "2", "3", "4", ",", "5", "6">>
V_0_00 == <<"0", ",", "0", "0">>
V_10_5 == <<"1", "0", ",", "5">>
V_1_2_3 == <<"1", ",", "2", ",", "3">>
V_100_00 == <<"1", "0", "0", ",", "0", "0">>
V_50_50 == <<"5", "0", ",", "5", "0">>
V_999_99 == <<"9", "9", "9", ",", "9", "9">>

SeqAte(S, n) == UNION {[1..k -> S] : k \in 0..n}

AnosAlvo == {2025}

LinhasScraper ==
    [competencia : {None, Some(T_03_2025), Some(T_05_2025), Some(T_02_2025),
                    Some(T_12_2024)},
     situacao : {GERADA, CANCELADA},
     valor : {None, Some(V_1234_56), Some(V_0_00), Some(V_10_5),
              Some(V_1_2_3)}]

PaginasScraper ==
    [tbody : {TRUE}, linhas : SeqAte(LinhasScraper, MaxLinhasPagina),
     paginacao : {"ausente"}]
    \cup {[tbody |-> FALSE, linhas |-> <<>>, paginacao |-> "ausente"]}

FiltrosScraper == {None, Some(3)}

NotasAgregador ==
    [mes : {3, 6, 13}, ano : {2024, 2025},
     valor : {[m |-> 105, e |-> 1], [m |-> 100, e |-> 0]},
     status : {"Autorizada"}]

FiltrosAgregador == {None} \cup {Some(m) : m \in 1..12}

----------------------------------------------------------------------------
(* The state before any request, and the two specifications of the pure    *)
(* functions: the inputs are drawn by Init, one action applies the function *)

HandlerIdle ==
    /\ pc = "Idle"
    /\ req = None
    /\ carregado = None
    /\ autenticando = None
    /\ session = None
    /\ fs = {}
    /\ trafego = <<>>
    /\ contribuinte = None
    /\ pagina = 1
    /\ todas_notas = <<>>
    /\ notas_retornadas = None
    /\ resposta = None

InitPagina ==
    /\ HandlerIdle
    /\ pagIn \in [html : PaginasScraper, ano : AnosAlvo,
                  mes_filtro : FiltrosScraper]
    /\ pagOut = None
    /\ totIn = None
    /\ totOut = None

ChamarProcessarPagina ==
    /\ pagIn # None
    /\ pagOut = None
    /\ pagOut' = Some(processar_pagina(pagIn.html, pagIn.ano, pagIn.mes_filtro))
    /\ UNCHANGED <<handlerVars, pagIn, totIn, totOut>>

NextPagina == ChamarProcessarPagina

SpecPagina == InitPagina /\ [][NextPagina]_vars

InitTotal ==
    /\ HandlerIdle
    /\ totIn \in [notas : SeqAte(NotasAgregador, MaxNotas), ano : AnosAlvo,
                  mes_filtro : FiltrosAgregador]
    /\ totOut = None
    /\ pagIn = None
    /\ pagOut = None

ChamarTotalizar ==
    /\ totIn # None
    /\ totOut = None
    /\ totOut' = Some(totalizar_por_mes(totIn.notas, totIn.ano, totIn.mes_filtro))
    /\ UNCHANGED <<handlerVars, pagIn, pagOut, totIn>>

NextTotal == ChamarTotalizar

SpecTotal == InitTotal /\ [][NextTotal]_vars

----------------------------------------------------------------------------
(* AUTHENTICATION and the temporary files *)

ARQ_DIR == "temp_dir"
ARQ_CERT == "cert.pem"
ARQ_KEY == "key.pem"

\* limpar_temp: the three removals in order, the first failure ends them
\* (except: pass); os.rmdir fails on a directory that is not empty
limpar_temp(sess, arquivos) ==
    IF ~sess.temp THEN arquivos
    ELSE IF ARQ_CERT \notin arquivos THEN arquivos
    ELSE LET a1 == arquivos \ {ARQ_CERT}
    IN  IF ARQ_KEY \notin a1 THEN a1
        ELSE LET a2 == a1 \ {ARQ_KEY}
        IN  IF a2 = {ARQ_DIR} THEN {} ELSE a2

\* HTTPException(status_code, detail); campo and pagina are the values the
\* detail text is formatted with
HTTPException(status, detail, campo, pag) ==
    Some([status |-> status, detail |-> detail, campo |-> campo,
          pagina |-> pag, corpo |-> None])

Credenciais == {None, Some(""), Some("x")}

\* the requests the framework's validation lets through; the fields of the
\* other authentication method are left out by the client
Requisicoes ==
    [auth_method : {1}, ano : AnosAlvo, mes : {None, Some(3)},
     cert_base64 : Credenciais, cert_senha : Credenciais,
     cnpj : {None}, senha : {None}]
    \cup
    [auth_method : {2}, ano : AnosAlvo, mes : {None, Some(3)},
     cert_base64 : {None}, cert_senha : {None},
     cnpj : Credenciais, senha : Credenciais]

\* not v, for an optional text
vazio(v) == v = None \/ v[1] = ""

\* the checks written as "is None": an empty text passes
campo_faltante_soNone(r) ==
    IF r.auth_method = 1
    THEN IF r.cert_base64 = None THEN Some("cert_base64")
         ELSE IF r.cert_senha = None THEN Some("cert_senha")
         ELSE None
    ELSE IF r.cnpj = None THEN Some("cnpj")
         ELSE IF r.senha = None THEN Some("senha")
         ELSE None

\* the required-field checks of consultar: the field the 400 names, or None
campo_faltante(r) ==
    IF r.auth_method = 1
    THEN IF vazio(r.cert_base64) THEN Some("cert_base64")
         ELSE IF vazio(r.cert_senha) THEN Some("cert_senha")
         ELSE None
    ELSE IF r.auth_method = 2
    THEN IF vazio(r.cnpj) THEN Some("cnpj")
         ELSE IF vazio(r.senha) THEN Some("senha")
         ELSE None
    ELSE None

Receber ==
    /\ pc = "Idle"
    /\ \E r \in Requisicoes : req' = Some(r)
    /\ pc' = "Validating"
    /\ UNCHANGED <<carregado, autenticando, session, fs, trafego, contribuinte,
                   pagina, todas_notas, notas_retornadas, resposta,
                   pagIn, pagOut, totIn, totOut>>

Validar ==
    /\ pc = "Validating"
    /\ LET falta == campo_faltante(req[1])
       IN  IF falta # None
           THEN /\ resposta' = HTTPException(400, "Campo obrigatorio", falta[1], 0)
                /\ pc' = "Finally"
           ELSE /\ resposta' = resposta
                /\ pc' = IF req[1].auth_method = 1 THEN "CarregarCertificado"
                         ELSE "LoginGet"
    /\ UNCHANGED <<req, carregado, autenticando, session, fs, trafego,
                   contribuinte, pagina, todas_notas, notas_retornadas,
                   pagIn, pagOut, totIn, totOut>>

\* autenticar_certificado, the decoding and loading of the bundle: it fails,
\* or gives a key and a certificate, each of which the bundle may lack
CarregarCertificado ==
    /\ pc = "CarregarCertificado"
    /\ \/ /\ resposta' = HTTPException(400, "Erro ao carregar certificado", "", 0)
          /\ pc' = "Finally"
          /\ carregado' = carregado
       \/ /\ \E k \in BOOLEAN, c \in BOOLEAN :
                carregado' = Some([private_key |-> k, certificate |-> c])
          /\ pc' = "ExportarPem"
          /\ resposta' = resposta
    /\ UNCHANGED <<req, autenticando, session, fs, trafego, contribuinte,
                   pagina, todas_notas, notas_retornadas,
                   pagIn, pagOut, totIn, totOut>>

\* the files that exist when the export of the two PEM files ends: open()
\* creates each file before its content is computed; io is where the file
\* system refuses, if it does
arquivos_exportados(bundle, io) ==
    IF io = "oserror_cert" THEN {ARQ_DIR}
    ELSE IF ~bundle.certificate \/ io = "oserror_key" THEN {ARQ_DIR, ARQ_CERT}
    ELSE {ARQ_DIR, ARQ_CERT, ARQ_KEY}

exportacao_ok(bundle, io) ==
    io = "ok" /\ bundle.certificate /\ bundle.private_key

\* autenticar_certificado, from mkdtemp to the session that names the files;
\* an exception here leaves through consultar's except Exception
ExportarPem ==
    /\ pc = "ExportarPem"
    /\ \E io \in {"ok", "oserror_cert", "oserror_key"} :
          /\ fs' = fs \cup arquivos_exportados(carregado[1], io)
          /\ IF exportacao_ok(carregado[1], io)
             THEN /\ autenticando' = Some([temp |-> TRUE])
                  /\ pc' = "CertificadoGet"
                  /\ resposta' = resposta
             ELSE /\ autenticando' = autenticando
                  /\ pc' = "Finally"
                  /\ resposta' = HTTPException(500, "Erro inesperado", "", 0)
    /\ UNCHANGED <<req, carregado, session, trafego, contribuinte,
                   pagina, todas_notas, notas_retornadas,
                   pagIn, pagOut, totIn, totOut>>

Chamada(de, url, resp) == [de |-> de, url |-> url, resp |-> resp]

Url(caminho) == [caminho |-> caminho, pg |-> None]

\* autenticar_certificado, the request that establishes the session
CertificadoGet ==
    /\ pc = "CertificadoGet"
    /\ \E r \in {"excecao", "sem_cookie", "cookie"} :
          /\ trafego' = Append(trafego,
                Chamada("autenticar_certificado", Url("Certificado"), r))
          /\ IF r = "cookie"
             THEN /\ session' = autenticando
                  /\ fs' = fs
                  /\ pc' = "ExtrairContribuinte"
                  /\ resposta' = resposta
             ELSE /\ session' = session
                  /\ fs' = limpar_temp(autenticando[1], fs)
                  /\ pc' = "Finally"
                  /\ resposta' =
                        IF r = "sem_cookie"
                        THEN HTTPException(401, "Falha na autenticacao", "", 0)
                        ELSE HTTPException(401, "Excecao", "", 0)
    /\ UNCHANGED <<req, carregado, autenticando, contribuinte,
                   pagina, todas_notas, notas_retornadas,
                   pagIn, pagOut, totIn, totOut>>

\* autenticar_login, the login page
LoginGet ==
    /\ pc = "LoginGet"
    /\ \E r \in {"excecao", "pagina"} :
          /\ trafego' = Append(trafego,
                Chamada("autenticar_login", Url("EmissorNacional"), r))
          /\ IF r = "pagina"
             THEN /\ pc' = "LoginPost"
                  /\ resposta' = resposta
             ELSE /\ pc' = "Finally"
                  /\ resposta' = HTTPException(401, "Excecao", "", 0)
    /\ autenticando' = Some([temp |-> FALSE])
    /\ UNCHANGED <<req, carregado, session, fs, contribuinte,
                   pagina, todas_notas, notas_retornadas,
                   pagIn, pagOut, totIn, totOut>>

\* autenticar_login, the form post
LoginPost ==
    /\ pc = "LoginPost"
    /\ \E r \in {"excecao", "sem_cookie", "cookie"} :
          /\ trafego' = Append(trafego,
                Chamada("autenticar_login", Url("Login"), r))
          /\ IF r = "cookie"
             THEN /\ session' = autenticando
                  /\ pc' = "ExtrairContribuinte"
                  /\ resposta' = resposta
             ELSE /\ session' = session
                  /\ pc' = "Finally"
                  /\ resposta' =
                        IF r = "sem_cookie"
                        THEN HTTPException(401, "Credenciais invalidas", "", 0)
                        ELSE HTTPException(401, "Excecao", "", 0)
    /\ UNCHANGED <<req, carregado, autenticando, fs, contribuinte,
                   pagina, todas_notas, notas_retornadas,
                   pagIn, pagOut, totIn, totOut>>

NaoDisponivel == [cnpj |-> "N/A", nome |-> "N/A"]

\* extrair_contribuinte: the profile of the page, or the placeholders on any
\* failure; then consultar_notas starts at page 1
ExtrairContribuinte ==
    /\ pc = "ExtrairContribuinte"
    /\ \E r \in {"excecao", "sem_perfil", "perfil"} :
          /\ trafego' = Append(trafego,
                Chamada("extrair_contribuinte", Url("Notas/Emitidas"), r))
          /\ contribuinte' =
                IF r = "perfil"
                THEN Some([cnpj |-> "12.345.678/0001-99", nome |-> "EMPRESA"])
                ELSE Some(NaoDisponivel)
    /\ pagina' = 1
    /\ todas_notas' = <<>>
    /\ pc' = "Paginating"
    /\ UNCHANGED <<req, carregado, autenticando, session, fs,
                   notas_retornadas, resposta, pagIn, pagOut, totIn, totOut>>

----------------------------------------------------------------------------
(* PAGINATION: consultar_notas *)

\* url = base_url if pagina == 1 else f"{base_url}?pg={pagina}"
url_pagina(pag) ==
    IF pag = 1 THEN [caminho |-> "Notas/Emitidas", pg |-> None]
    ELSE [caminho |-> "Notas/Emitidas", pg |-> Some(pag)]

\* the div of class paginacao is there and holds the link titled Proxima
tem_proxima(html) == html.paginacao = "proxima"

\* the turn of the loop without the test of the continuation flag
consultar_notas_passo_semContinuar(todas, pag, resp, ano, mes_filtro) ==
    IF resp.tipo = "excecao"
    THEN [fim |-> "raise", todas |-> todas, pagina |-> pag]
    ELSE IF resp.status_code # 200
    THEN [fim |-> "break", todas |-> todas, pagina |-> pag]
    ELSE LET r == processar_pagina(resp.html, ano, mes_filtro)
             estendidas == todas \o r.notas
         IN  IF ~(resp.html.paginacao = "proxima")
             THEN [fim |-> "break", todas |-> estendidas, pagina |-> pag]
             ELSE [fim |-> "next", todas |-> estendidas, pagina |-> pag + 1]

\* one turn of the while loop, given the answer to session.get
consultar_notas_passo(todas, pag, resp, ano, mes_filtro) ==
    IF resp.tipo = "excecao"
    THEN [fim |-> "raise", todas |-> todas, pagina |-> pag]
    ELSE IF resp.status_code # 200
    THEN [fim |-> "break", todas |-> todas, pagina |-> pag]
    ELSE LET r == processar_pagina(resp.html, ano, mes_filtro)
             estendidas == todas \o r.notas
         IN  IF ~r.continuar
             THEN [fim |-> "break", todas |-> estendidas, pagina |-> pag]
             ELSE IF ~tem_proxima(resp.html)
             THEN [fim |-> "break", todas |-> estendidas, pagina |-> pag]
             ELSE [fim |-> "next", todas |-> estendidas, pagina |-> pag + 1]

LinhasPortal ==
    {[competencia |-> Some(T_03_2025), situacao |-> GERADA,
      valor |-> Some(V_100_00)],
     [competencia |-> Some(T_13_2025), situacao |-> GERADA,
      valor |-> Some(V_50_50)],
     [competencia |-> Some(T_12_2024), situacao |-> GERADA,
      valor |-> Some(V_999_99)]}

SemTabela == [tbody |-> FALSE, linhas |-> <<>>, paginacao |-> "ausente"]

\* the pages the portal may answer with; its last page offers no next page
PaginasPortal(pag) ==
    [tbody : {TRUE}, linhas : SeqAte(LinhasPortal, MaxLinhas),
     paginacao : IF pag < MaxPaginas THEN {"ausente", "sem_link", "proxima"}
                 ELSE {"ausente", "sem_link"}]
    \cup {SemTabela}

RespostasPortal(pag) ==
    {[tipo |-> "excecao", status_code |-> 0, html |-> SemTabela],
     [tipo |-> "http", status_code |-> 500, html |-> SemTabela]}
    \cup [tipo : {"http"}, status_code : {200}, html : PaginasPortal(pag)]

BuscarPagina ==
    /\ pc = "Paginating"
    /\ \E resp \in RespostasPortal(pagina) :
          LET passo == consultar_notas_passo(todas_notas, pagina, resp,
                                             req[1].ano, req[1].mes)
          IN  /\ trafego' = Append(trafego,
                    Chamada("consultar_notas", url_pagina(pagina), resp))
              /\ todas_notas' = passo.todas
              /\ pagina' = passo.pagina
              /\ CASE passo.fim = "raise" ->
                        /\ resposta' = HTTPException(500,
                              "Erro ao consultar pagina", "", pagina)
                        /\ notas_retornadas' = notas_retornadas
                        /\ pc' = "Finally"
                   [] passo.fim = "break" ->
                        /\ resposta' = resposta
                        /\ notas_retornadas' = Some(passo.todas)
                        /\ pc' = "Aggregating"
                   [] passo.fim = "next" ->
                        /\ resposta' = resposta
                        /\ notas_retornadas' = notas_retornadas
                        /\ pc' = "Paginating"
    /\ UNCHANGED <<req, carregado, autenticando, session, fs, contribuinte,
                   pagIn, pagOut, totIn, totOut>>

----------------------------------------------------------------------------
(* The end of consultar: the totals, the response, the finally clause *)

ConsultaResponse(r, contrib, notas) ==
    [cnpj |-> contrib.cnpj,
     razao_social |-> contrib.nome,
     ano |-> r.ano,
     mes_filtrado |-> r.mes,
     quantidade_autorizadas |-> Len(notas),
     total_autorizado |-> soma_valores(notas),
     total_cancelado |-> Zero,
     detalhamento_por_mes |-> totalizar_por_mes(notas, r.ano, r.mes)]

Agregar ==
    /\ pc = "Aggregating"
    /\ resposta' = Some([status |-> 200, detail |-> "", campo |-> "",
                         pagina |-> 0,
                         corpo |-> Some(ConsultaResponse(req[1],
                                    contribuinte[1], notas_retornadas[1]))])
    /\ pc' = "Finally"
    /\ UNCHANGED <<req, carregado, autenticando, session, fs, trafego,
                   contribuinte, pagina, todas_notas, notas_retornadas,
                   pagIn, pagOut, totIn, totOut>>

\* finally: if session: limpar_temp(session)
Finally ==
    /\ pc = "Finally"
    /\ fs' = IF session # None THEN limpar_temp(session[1], fs) ELSE fs
    /\ pc' = "Done"
    /\ UNCHANGED <<req, carregado, autenticando, session, trafego,
                   contribuinte, pagina, todas_notas, notas_retornadas,
                   resposta, pagIn, pagOut, totIn, totOut>>

Init ==
    /\ HandlerIdle
    /\ pagIn = None
    /\ pagOut = None
    /\ totIn = None
    /\ totOut = None

Next ==
    \/ Receber
    \/ Validar
    \/ CarregarCertificado
    \/ ExportarPem
    \/ CertificadoGet
    \/ LoginGet
    \/ LoginPost
    \/ ExtrairContribuinte
    \/ BuscarPagina
    \/ Agregar
    \/ Finally

Spec == Init /\ [][Next]_vars

----------------------------------------------------------------------------
(* What the texts of the inputs stand for, written out by hand: the claims  *)
(* are stated against these tables, not against the parsing they check      *)

CompetenciaDe(texto) ==
    CASE texto = T_03_2025 -> [mes |-> 3, ano |-> 2025]
      [] texto = T_05_2025 -> [mes |-> 5, ano |-> 2025]
      [] texto = T_02_2025 -> [mes |-> 2, ano |-> 2025]
      [] texto = T_13_2025 -> [mes |-> 13, ano |-> 2025]
      [] texto = T_12_2024 -> [mes |-> 12, ano |-> 2024]

DoisDigitos ==
    <<<<"0", "1">>, <<"0", "2">>, <<"0", "3">>, <<"0", "4">>, <<"0", "5">>,
      <<"0", "6">>, <<"0", "7">>, <<"0", "8">>, <<"0", "9">>, <<"1", "0">>,
      <<"1", "1">>, <<"1", "2">>>>

RotuloEsperado(m, ano) ==
    CASE ano = 2025 -> DoisDigitos[m] \o <<"/", "2", "0", "2", "5">>
      [] ano = 2024 -> DoisDigitos[m] \o <<"/", "2", "0", "2", "4">>

TemCompetencia(linha) == linha.competencia # None

\* the row's own competence ends the scan: another year, or older than the filter
CompetenciaPara(linha, ano, mes_filtro) ==
    /\ TemCompetencia(linha)
    /\ LET c == CompetenciaDe(linha.competencia[1])
       IN  \/ c.ano # ano
           \/ mes_filtro # None /\ c.mes < mes_filtro[1]

\* the row's competence is of the target year and passes the month filter
CompetenciaAceita(linha, ano, mes_filtro) ==
    /\ TemCompetencia(linha)
    /\ LET c == CompetenciaDe(linha.competencia[1])
       IN  /\ c.ano = ano
           /\ mes_filtro # None => c.mes = mes_filtro[1]

RemoverLinha(html, i) ==
    [html EXCEPT !.linhas = SubSeq(@, 1, i - 1) \o SubSeq(@, i + 1, Len(@))]

Prefixo(html, k) == [html EXCEPT !.linhas = SubSeq(@, 1, k)]

Sufixo(html, i) == [html EXCEPT !.linhas = SubSeq(@, i, Len(@))]

PagFeita == pagOut # None

Linhas == pagIn.html.linhas

Scrape(html) == processar_pagina(html, pagIn.ano, pagIn.mes_filtro)

\* rows of the target year that are older than the month filter
Antigas ==
    {i \in 1..Len(Linhas) :
        /\ pagIn.mes_filtro # None
        /\ TemCompetencia(Linhas[i])
        /\ CompetenciaDe(Linhas[i].competencia[1]).ano = pagIn.ano
        /\ CompetenciaDe(Linhas[i].competencia[1]).mes < pagIn.mes_filtro[1]}

\* rows of the target year that are newer than the month filter
Novas ==
    {i \in 1..Len(Linhas) :
        /\ pagIn.mes_filtro # None
        /\ TemCompetencia(Linhas[i])
        /\ CompetenciaDe(Linhas[i].competencia[1]).ano = pagIn.ano
        /\ CompetenciaDe(Linhas[i].competencia[1]).mes > pagIn.mes_filtro[1]}

\* C5: with a month filter m, the scan of a page stops at the first row of
\* the target year whose month is older than m: the flag is continue=false
\* and what is retained is what the rows before it give; a row of the target
\* year with a month newer than m is skipped and the scan goes on as if the
\* row were not there; no retained record has a month other than m.
C5_MonthFilter ==
    (PagFeita /\ pagIn.mes_filtro # None) =>
        /\ Antigas # {} =>
              LET k == CHOOSE i \in Antigas : \A j \in Antigas : i <= j
              IN  /\ pagOut[1].continuar = FALSE
                  /\ pagOut[1].notas = Scrape(Prefixo(pagIn.html, k - 1)).notas
                  /\ Len(pagOut[1].notas) <= k - 1
        /\ \A i \in Novas : pagOut[1] = Scrape(RemoverLinha(pagIn.html, i))
        /\ \A n \in 1..Len(pagOut[1].notas) :
              pagOut[1].notas[n].mes = pagIn.mes_filtro[1]

\* a row of the filtered month is retained, then an older row, authorized
\* and well formed, stops the scan and is not retained
C5_Witness ==
    /\ PagFeita /\ pagIn.mes_filtro = Some(3)
    /\ Len(Linhas) = 2
    /\ Linhas[1].competencia = Some(T_03_2025)
    /\ Linhas[2].competencia = Some(T_02_2025)
    /\ Linhas[2].situacao = GERADA
    /\ Linhas[2].valor = Some(V_0_00)
    /\ Len(pagOut[1].notas) = 1
    /\ pagOut[1].continuar = FALSE

NaoGeradas == {i \in 1..Len(Linhas) : Linhas[i].situacao # GERADA}

\* C7 as claimed: a row whose status is not the authorized one produces no
\* record and never stops the scan, whatever its competence and value: the
\* page gives what it gives without the row.
C7_Original ==
    PagFeita =>
        \A i \in NaoGeradas : pagOut[1] = Scrape(RemoverLinha(pagIn.html, i))

\* C7 as amended: a row whose status is not the authorized one produces no
\* record, and it does not stop the scan unless its own competence does
\* (another year, or a month older than the filter): then the page gives
\* what the rows before it give, otherwise what it gives without the row.
C7_NonAuthorized ==
    PagFeita =>
        /\ \A i \in NaoGeradas :
              IF CompetenciaPara(Linhas[i], pagIn.ano, pagIn.mes_filtro)
              THEN pagOut[1].notas = Scrape(Prefixo(pagIn.html, i - 1)).notas
              ELSE pagOut[1] = Scrape(RemoverLinha(pagIn.html, i))
        /\ Len(pagOut[1].notas) <= Len(Linhas) - Cardinality(NaoGeradas)

\* a cancelled row of the target year with a well-formed value, then an
\* authorized row that is retained
C7_Witness ==
    /\ PagFeita
    /\ Len(Linhas) = 2
    /\ Linhas[1].situacao = CANCELADA
    /\ CompetenciaAceita(Linhas[1], pagIn.ano, pagIn.mes_filtro)
    /\ Linhas[1].valor = Some(V_1234_56)
    /\ Linhas[2].situacao = GERADA
    /\ Len(pagOut[1].notas) = 1
    /\ pagOut[1].continuar

\* authorized rows of the target year, passing the filter, with this value text
ComValor(txt) ==
    {i \in 1..Len(Linhas) :
        /\ Linhas[i].situacao = GERADA
        /\ CompetenciaAceita(Linhas[i], pagIn.ano, pagIn.mes_filtro)
        /\ Linhas[i].valor = Some(txt)}

ParseFacts ==
    /\ parse_valor(V_1234_56) = Some([m |-> 123456, e |-> 2])
    /\ parse_valor(V_0_00) = Some([m |-> 0, e |-> 0])

\* C6 as claimed: "1.234,56" is 1234.56, "0,00" is 0.0, and an authorized
\* row of the target year whose value text is "10,5" is skipped: the page
\* gives what it gives without the row.
C6_Original ==
    /\ ParseFacts
    /\ PagFeita =>
          \A i \in ComValor(V_10_5) :
              pagOut[1] = Scrape(RemoverLinha(pagIn.html, i))

\* C6 as amended: "1.234,56" is 1234.56, "0,00" is 0.0 and "10,5" is 10.5:
\* an authorized row of the target year with value text "10,5" that the scan
\* reaches produces a record of value 10.5, between the records of the rows
\* before it and those of the rows after it; a row whose value text is no
\* number ("1,2,3") is skipped and the other rows are still processed.
C6_Parsing ==
    /\ ParseFacts
    /\ parse_valor(V_10_5) = Some([m |-> 105, e |-> 1])
    /\ parse_valor(V_1_2_3) = None
    /\ PagFeita =>
          /\ \A i \in ComValor(V_10_5) :
                Scrape(Prefixo(pagIn.html, i - 1)).continuar =>
                    /\ pagOut[1].notas =
                          Scrape(Prefixo(pagIn.html, i - 1)).notas
                          \o <<[mes |-> CompetenciaDe(Linhas[i].competencia[1]).mes,
                                ano |-> pagIn.ano,
                                valor |-> [m |-> 105, e |-> 1],
                                status |-> "Autorizada"]>>
                          \o Scrape(Sufixo(pagIn.html, i + 1)).notas
                    /\ pagOut[1].continuar =
                          Scrape(Sufixo(pagIn.html, i + 1)).continuar
          /\ \A i \in ComValor(V_1_2_3) :
                pagOut[1] = Scrape(RemoverLinha(pagIn.html, i))

\* a row with "1,2,3" gives no record and the row with "10,5" after it
\* gives one
C6_Witness ==
    /\ PagFeita
    /\ Len(Linhas) = 2
    /\ 1 \in ComValor(V_1_2_3)
    /\ 2 \in ComValor(V_10_5)
    /\ Len(pagOut[1].notas) = 1
    /\ pagOut[1].notas[1].valor = [m |-> 105, e |-> 1]

TotFeito == totOut # None

MesesEmEscopo ==
    IF totIn.mes_filtro # None THEN {totIn.mes_filtro[1]} ELSE 1..12

\* C8: the mapping totalizar_por_mes returns has exactly the twelve labels
\* "01/<year>".."12/<year>" as keys without a month filter and exactly the
\* label of the filtered month with one, for every record list; a month
\* without records maps to 0.0; no record adds a key.
C8_Seeding ==
    TotFeito =>
        /\ DOMAIN totOut[1] = {RotuloEsperado(m, totIn.ano) : m \in MesesEmEscopo}
        /\ Cardinality(DOMAIN totOut[1]) =
              IF totIn.mes_filtro = None THEN 12 ELSE 1
        /\ \A m \in MesesEmEscopo :
              (\A n \in 1..Len(totIn.notas) :
                  totIn.notas[n].mes # m \/ totIn.notas[n].ano # totIn.ano)
              => totOut[1][RotuloEsperado(m, totIn.ano)] = Zero

\* records of a month out of the calendar and of another year are given, the
\* keys are the twelve months all the same
C8_Witness ==
    /\ TotFeito
    /\ totIn.mes_filtro = None
    /\ Len(totIn.notas) = 2
    /\ totIn.notas[1].mes = 13
    /\ totIn.notas[2].ano = 2024
    /\ Cardinality(DOMAIN totOut[1]) = 12

----------------------------------------------------------------------------
(* Claims on the request handler *)

DeConsultarNotas(c) == c.de = "consultar_notas"

\* the page requests of consultar_notas, in the order they were sent
Buscas == SelectSeq(trafego, DeConsultarNotas)

PaginaDaUrl(url) == IF url.pg = None THEN 1 ELSE url.pg[1]

Terminou == pc = "Done"

\* C1: when a request that authenticates by certificate ends, none of the
\* temporary artifacts created for it (the directory, cert.pem, key.pem)
\* exists any more, whichever way the request ended.
C1_Cleanup ==
    (Terminou /\ req[1].auth_method = 1) => fs = {}

FalhouBusca(c) == c.resp.tipo = "excecao" \/ c.resp.status_code # 200

\* C2: when the fetch of page n fails in transport or returns a status that
\* is not a success, the request ends with the fetch error that names page
\* n, and with no successful response.
C2_FetchError ==
    Terminou =>
        \A i \in 1..Len(Buscas) :
            FalhouBusca(Buscas[i]) =>
                /\ resposta[1].status = 500
                /\ resposta[1].detail = "Erro ao consultar pagina"
                /\ resposta[1].pagina = i
                /\ resposta[1].corpo = None

AusenteOuVazio == {None, Some("")}

\* the required credential fields the request lacks
Faltantes(r) ==
    IF r.auth_method = 1
    THEN {f \in {"cert_base64", "cert_senha"} :
            \/ f = "cert_base64" /\ r.cert_base64 \in AusenteOuVazio
            \/ f = "cert_senha" /\ r.cert_senha \in AusenteOuVazio}
    ELSE {f \in {"cnpj", "senha"} :
            \/ f = "cnpj" /\ r.cnpj \in AusenteOuVazio
            \/ f = "senha" /\ r.senha \in AusenteOuVazio}

\* C3: a request that lacks a credential field its auth_method requires
\* (missing or empty) never makes an HTTP call to the portal, and it ends
\* with the 400 error that names a missing field.
C3_ValidationFirst ==
    (req # None /\ Faltantes(req[1]) # {}) =>
        /\ trafego = <<>>
        /\ pc \in {"Validating", "Finally", "Done"}
        /\ pc \in {"Finally", "Done"} =>
              /\ resposta # None
              /\ resposta[1].status = 400
              /\ resposta[1].detail = "Campo obrigatorio"
              /\ resposta[1].campo \in Faltantes(req[1])

\* the certificate is given and its password is empty
C3_Witness ==
    /\ Terminou
    /\ req[1].auth_method = 1
    /\ req[1].cert_base64 = Some("x")
    /\ req[1].cert_senha = Some("")
    /\ resposta[1].status = 400
    /\ resposta[1].campo = "cert_senha"
    /\ trafego = <<>>

TodasDoAno(notas, ano) == \A n \in 1..Len(notas) : notas[n].ano = ano

\* C4: every record processar_pagina returns for a page has the target year,
\* and so has every record consultar_notas has accumulated or returned,
\* after any sequence of page fetches.
C4_TargetYear ==
    req # None =>
        /\ \A i \in 1..Len(Buscas) :
              Buscas[i].resp.status_code = 200 =>
                  TodasDoAno(processar_pagina(Buscas[i].resp.html,
                                 req[1].ano, req[1].mes).notas, req[1].ano)
        /\ TodasDoAno(todas_notas, req[1].ano)
        /\ notas_retornadas # None => TodasDoAno(notas_retornadas[1], req[1].ano)

\* two pages were fetched: a row of the target year on the first, a row of
\* the year before on the second, which ends the scan; one record is returned
C4_Witness ==
    /\ Terminou
    /\ resposta[1].status = 200
    /\ Len(Buscas) = 2
    /\ Len(Buscas[1].resp.html.linhas) = 1
    /\ Buscas[1].resp.html.linhas[1].competencia = Some(T_03_2025)
    /\ Len(Buscas[2].resp.html.linhas) = 1
    /\ Buscas[2].resp.html.linhas[1].competencia = Some(T_12_2024)
    /\ Buscas[2].resp.html.linhas[1].situacao = GERADA
    /\ Len(notas_retornadas[1]) = 1

\* the three conditions under which the next page is requested
SeguePagina(c) ==
    /\ c.resp.tipo = "http"
    /\ c.resp.status_code = 200
    /\ processar_pagina(c.resp.html, req[1].ano, req[1].mes).continuar
    /\ c.resp.html.paginacao = "proxima"

RECURSIVE RegistrosDe(_)
RegistrosDe(buscas) ==
    IF buscas = <<>> THEN <<>>
    ELSE LET c == Head(buscas)
         IN  (IF c.resp.tipo = "http" /\ c.resp.status_code = 200
              THEN processar_pagina(c.resp.html, req[1].ano, req[1].mes).notas
              ELSE <<>>)
             \o RegistrosDe(Tail(buscas))

\* C9: consultar_notas requests the pages 1, 2, 3, ... in this order, with
\* no gap and no repeat; it requests page n+1 only if page n came with
\* status 200, continue=true and the next-page link; once a page fails one
\* of the three, no page is requested after it, and the records of the
\* pages processed so far, that page included, are what it returns.
C9_Sequential ==
    req # None =>
        /\ \A i \in 1..Len(Buscas) : PaginaDaUrl(Buscas[i].url) = i
        /\ \A i \in 1..(Len(Buscas) - 1) : SeguePagina(Buscas[i])
        /\ pc = "Paginating" =>
              /\ \A i \in 1..Len(Buscas) : SeguePagina(Buscas[i])
              /\ pagina = Len(Buscas) + 1
        /\ pc # "Paginating" /\ Buscas # <<>> =>
              ~SeguePagina(Buscas[Len(Buscas)])
        /\ notas_retornadas # None =>
              /\ Buscas[Len(Buscas)].resp.tipo = "http"
              /\ notas_retornadas[1] = RegistrosDe(Buscas)

\* page 1 led to page 2, which came with a status that is no success: the
\* records of page 1 are what is returned
C9_Witness ==
    /\ pc = "Aggregating"
    /\ Len(Buscas) = 2
    /\ Buscas[1].url.pg = None
    /\ Buscas[2].url.pg = Some(2)
    /\ Buscas[2].resp.status_code = 500
    /\ Len(Buscas[1].resp.html.linhas) = 1
    /\ Len(notas_retornadas[1]) = 1

RECURSIVE SomaMapa(_, _)
SomaMapa(f, chaves) ==
    IF chaves = {} THEN Zero
    ELSE LET k == CHOOSE x \in chaves : TRUE
         IN  DecAdd(f[k], SomaMapa(f, chaves \ {k}))

\* C10: in a successful response total_autorizado is the sum of the values
\* of detalhamento_por_mes, and every record counted by
\* quantidade_autorizadas belongs to one seeded month of it, whatever the
\* pages hold (a two-digit month outside 01..12 included).
C10_Totals ==
    (resposta # None /\ resposta[1].status = 200) =>
        LET c == resposta[1].corpo[1]
        IN  /\ c.total_autorizado =
                  SomaMapa(c.detalhamento_por_mes, DOMAIN c.detalhamento_por_mes)
            /\ c.quantidade_autorizadas = Len(notas_retornadas[1])
            /\ \A n \in 1..Len(notas_retornadas[1]) :
                  \E m \in 1..12 :
                      /\ notas_retornadas[1][n].mes = m
                      /\ RotuloEsperado(m, notas_retornadas[1][n].ano)
                            \in DOMAIN c.detalhamento_por_mes

====
